---- MODULE Spec2Model ----
(***************************************************************************)
(* Model of truth.py: ExpressionBuilder (random boolean expression built   *)
(* by positional edits of a token list) and Evaluator (truth table of an   *)
(* expression text obtained by keyword replacement and Python's eval).     *)
(*                                                                         *)
(* Python lists are modelled as sequences; every index that appears in an  *)
(* operator's argument or result is a 0-based Python index.  Strings that  *)
(* the program inspects character by character (the expression text) are   *)
(* sequences of one-character strings.                                     *)
(***************************************************************************)
EXTENDS Integers, Sequences, FiniteSets, TLC

\* Bounds of the model
MaxVars == 3
MaxParenCount == 2
MaxEvalCalls == 2
MaxTokens == 6

\* Variable names a caller may supply, and the binary operators
Names == {"A", "B", "C", "XOR"}
Operators == {"AND", "OR"}

VARIABLES
    variables,      \* ExpressionBuilder.variables (shuffled order)
    operators,      \* ExpressionBuilder.operators (shuffled order)
    not_expr,       \* ExpressionBuilder.not_expr: <<variable, precedence>>
    paren_count,    \* ExpressionBuilder.paren_count
    expression,     \* ExpressionBuilder.expression: list of tokens
    parentheses,    \* ExpressionBuilder.parentheses: ordered dict, as <<key, index>> pairs
    pc,             \* position of build(): "constructed", "groups", "built", "raised"
    done,           \* iterations of the extra-group loop completed
    ev_expression,  \* Evaluator.expression: the text, as characters
    ev_pyexpr,      \* Evaluator.__expression: the text after the replacements
    ev_variables,   \* Evaluator.variables: sorted
    lines,          \* Evaluator.lines: list of rows (dicts)
    ev_state,       \* "none" (no evaluator), "new", "ok", "error"
    calls           \* number of eval() calls made

vars == <<variables, operators, not_expr, paren_count, expression, parentheses,
          pc, done, ev_expression, ev_pyexpr, ev_variables, lines, ev_state, calls>>

builderVars == <<variables, operators, not_expr, paren_count, expression,
                 parentheses, pc, done>>
evaluatorVars == <<ev_expression, ev_pyexpr, ev_variables, lines, ev_state, calls>>

----------------------------------------------------------------------------
(* Python list primitives, 0-based *)

Min(a, b) == IF a < b THEN a ELSE b
Max(a, b) == IF a > b THEN a ELSE b

\* list.insert(i, x): the index is clamped to the list, negative counts from the end
Insert(s, i, x) ==
    LET p == IF i < 0 THEN Max(Len(s) + i, 0) ELSE Min(i, Len(s))
    IN  SubSeq(s, 1, p) \o <<x>> \o SubSeq(s, p + 1, Len(s))

\* list.index(x): first occurrence; -1 stands for ValueError
Index(s, x) ==
    IF \E i \in 1..Len(s) : s[i] = x
    THEN (CHOOSE i \in 1..Len(s) : s[i] = x /\ \A j \in 1..(i - 1) : s[j] # x) - 1
    ELSE -1

\* dict lookup and item assignment on an ordered dict kept as <<key, value>> pairs
Get(d, k) == LET i == CHOOSE i \in 1..Len(d) : d[i][1] = k IN d[i][2]
Put(d, k, v) == [i \in 1..Len(d) |-> IF d[i][1] = k THEN <<k, v>> ELSE d[i]]

\* all orderings of the subsets of S with n elements
Orderings(S, n) ==
    {s \in [1..n -> S] : \A i, j \in 1..n : i # j => s[i] # s[j]}

----------------------------------------------------------------------------
(* ExpressionBuilder *)

\* build(), lines 88-91: the variables with operator i inserted at 2 * i + 1
RECURSIVE InsertOperators(_, _, _)
InsertOperators(expr, ops, i) ==
    IF i >= Len(ops) THEN expr
    ELSE InsertOperators(Insert(expr, 2 * i + 1, ops[i + 1]), ops, i + 1)

\* build(), lines 94-95: NOT before the negated variable, then ( after NOT
PushNot(expr, ne) ==
    LET withNot == Insert(expr, Index(expr, ne[1]), "NOT")
    IN  Insert(withNot, Index(withNot, "NOT") + 1, "(")

\* sorted() by index, stable: the variables in increasing order of their index
RECURSIVE SortByIndex(_)
SortByIndex(pairs) ==
    IF pairs = {} THEN <<>>
    ELSE LET m == CHOOSE p \in pairs : \A q \in pairs : p[2] <= q[2]
         IN  <<m>> \o SortByIndex(pairs \ {m})

\* __generate_indices_of_variables: ordered dict variable -> first index in expr
GenerateIndicesOfVariables(expr, vs) ==
    SortByIndex({<<vs[i], Index(expr, vs[i])>> : i \in 1..Len(vs)})

\* list.index on the items of the dict
PositionOf(d, k) == (CHOOSE i \in 1..Len(d) : d[i][1] = k) - 1

\* mutant of CloseNot: the low-precedence ) is put at the next variable's own index
CloseNotBeforeNext(expr, parens, ne) ==
    IF ne[2] = 0
    THEN LET position == PositionOf(parens, ne[1])
         IN  IF position = Len(parens) - 1
             THEN Append(expr, ")")
             ELSE LET right == parens[position + 2][1]
                  IN  Insert(expr, Get(parens, right), ")")
    ELSE Insert(expr, Index(expr, "NOT") + 3, ")")

\* mutant of CloseNot: nothing is appended when the negated variable is the last one
CloseNotForgetLast(expr, parens, ne) ==
    IF ne[2] = 0
    THEN LET position == PositionOf(parens, ne[1])
         IN  IF position = Len(parens) - 1
             THEN expr
             ELSE LET right == parens[position + 2][1]
                  IN  Insert(expr, Get(parens, right) + 1, ")")
    ELSE Insert(expr, Index(expr, "NOT") + 3, ")")

\* build(), lines 99-114: the closing parenthesis of the NOT
CloseNot(expr, parens, ne) ==
    IF ne[2] = 0
    THEN LET position == PositionOf(parens, ne[1])
         IN  IF position = Len(parens) - 1
             THEN Append(expr, ")")
             ELSE LET right == parens[position + 2][1]
                  IN  Insert(expr, Get(parens, right) + 1, ")")
    ELSE Insert(expr, Index(expr, "NOT") + 3, ")")

\* mutant of AdjustNot: the negated variable's index is moved back by one only
AdjustNotByOne(parens, ne) == Put(parens, ne[1], Get(parens, ne[1]) - 1)

\* build(), line 118: the negated variable's entry is moved back onto its NOT
AdjustNot(parens, ne) == Put(parens, ne[1], Get(parens, ne[1]) - 2)

\* __generate_parentheses_positions: the candidates of random.choice, keys()[:-1]
LeftChoices(parens) == {parens[i][1] : i \in 1..(Len(parens) - 1)}

\* __generate_parentheses_positions: the key that follows left
RightOf(parens, left) == parens[PositionOf(parens, left) + 2][1]

\* __insert_parentheses, lines 140-146: the dict after the right entry is moved
MoveRight(parens, right, ne) ==
    LET p1 == IF right = ne[1] THEN Put(parens, right, Get(parens, right) + 2)
              ELSE parens
    IN  Put(p1, right, Get(p1, right) + 1)

\* __insert_parentheses: <<expression, parentheses>> after the call
InsertParentheses(expr, parens, left, right, ne) ==
    LET p2 == MoveRight(parens, right, ne)
    IN  IF Get(p2, left) = 0 /\ Get(p2, right) >= Len(expr) - 1
        THEN <<expr, p2>>
        ELSE LET closed == Insert(expr, Get(p2, right), ")")
                 opened == Insert(closed, Get(p2, left), "(")
             IN  <<opened, p2>>

\* ExpressionBuilder.__init__: the shuffles and the random NOT are drawn here
BuilderInit ==
    /\ \E n \in 1..MaxVars :
          /\ variables \in Orderings(Names, n)
          /\ operators \in [1..(n - 1) -> Operators]
    /\ not_expr \in {variables[i] : i \in 1..Len(variables)} \X {0, 1}
    /\ paren_count \in 0..MaxParenCount
    /\ parentheses = <<>>
    /\ expression = <<>>
    /\ pc = "constructed"
    /\ done = 0

\* build(), lines 88-114: the backbone, the NOT and its closing parenthesis
BuildNot ==
    /\ pc = "constructed"
    /\ LET pushed == PushNot(InsertOperators(variables, operators, 0), not_expr)
           parens == GenerateIndicesOfVariables(pushed, variables)
       IN  /\ parentheses' = parens
           /\ expression' = CloseNot(pushed, parens, not_expr)
    /\ pc' = "groups"
    /\ done' = 0
    /\ UNCHANGED <<variables, operators, not_expr, paren_count>>
    /\ UNCHANGED evaluatorVars

\* build(), lines 116-124: one iteration of the extra-group loop; random.choice
\* of an empty list raises IndexError
GroupStep ==
    /\ pc = "groups"
    /\ done < paren_count
    /\ \E parens \in {AdjustNot(GenerateIndicesOfVariables(expression, variables),
                                 not_expr)} :
          IF LeftChoices(parens) = {}
          THEN /\ parentheses' = parens
               /\ pc' = "raised"
               /\ UNCHANGED <<expression, done>>
          ELSE \E left \in LeftChoices(parens) :
                  \E r \in {InsertParentheses(expression, parens, left,
                                              RightOf(parens, left), not_expr)} :
                     /\ expression' = r[1]
                     /\ parentheses' = r[2]
                     /\ done' = done + 1
                     /\ pc' = "groups"
    /\ UNCHANGED <<variables, operators, not_expr, paren_count>>
    /\ UNCHANGED evaluatorVars

\* build() returns once the loop has run paren_count times
BuildReturn ==
    /\ pc = "groups"
    /\ done = paren_count
    /\ pc' = "built"
    /\ UNCHANGED <<variables, operators, not_expr, paren_count, expression,
                   parentheses, done>>
    /\ UNCHANGED evaluatorVars

----------------------------------------------------------------------------
(* Text: Python str values the program looks into, as sequences of characters *)

\* the characters of each token the model uses
Chars(tok) ==
    CASE tok = "A" -> <<"A">>
      [] tok = "B" -> <<"B">>
      [] tok = "C" -> <<"C">>
      [] tok = "XOR" -> <<"X", "O", "R">>
      [] tok = "AND" -> <<"A", "N", "D">>
      [] tok = "OR" -> <<"O", "R">>
      [] tok = "NOT" -> <<"N", "O", "T">>
      [] tok = "(" -> <<"(">>
      [] tok = ")" -> <<")">>

\* ord() of the characters variable names are made of
Ord(c) ==
    CASE c = "A" -> 65 [] c = "B" -> 66 [] c = "C" -> 67 [] c = "D" -> 68
      [] c = "N" -> 78 [] c = "O" -> 79 [] c = "R" -> 82 [] c = "T" -> 84
      [] c = "X" -> 88

\* ExpressionBuilder.__str__: " ".join(self.expression)
RECURSIVE Join(_)
Join(tokens) ==
    IF tokens = <<>> THEN <<>>
    ELSE IF Len(tokens) = 1 THEN Chars(tokens[1])
    ELSE Chars(tokens[1]) \o <<" ">> \o Join(Tail(tokens))

StartsWith(s, old) == Len(s) >= Len(old) /\ SubSeq(s, 1, Len(old)) = old

\* str.replace(old, new): non-overlapping occurrences, scanned from the left
RECURSIVE Replace(_, _, _)
Replace(s, old, new) ==
    IF s = <<>> THEN <<>>
    ELSE IF StartsWith(s, old)
         THEN new \o Replace(SubSeq(s, Len(old) + 1, Len(s)), old, new)
         ELSE <<s[1]>> \o Replace(Tail(s), old, new)

\* Evaluator.__init__, lines 14-15: the three replacements, in this order
ToPython(text) ==
    Replace(Replace(Replace(text, <<"O", "R">>, <<"o", "r">>),
                    <<"N", "O", "T">>, <<"n", "o", "t">>),
            <<"A", "N", "D">>, <<"a", "n", "d">>)

\* str < str: lexicographic by code point, a proper prefix is smaller
RECURSIVE StrLess(_, _)
StrLess(a, b) ==
    IF b = <<>> THEN FALSE
    ELSE IF a = <<>> THEN TRUE
    ELSE IF a[1] # b[1] THEN Ord(a[1]) < Ord(b[1])
    ELSE StrLess(Tail(a), Tail(b))

RemoveAt(s, i) == SubSeq(s, 1, i - 1) \o SubSeq(s, i + 1, Len(s))

\* sorted(variables): ascending
RECURSIVE Sorted(_)
Sorted(vs) ==
    IF vs = <<>> THEN <<>>
    ELSE LET i == CHOOSE i \in 1..Len(vs) :
                     /\ \A j \in 1..Len(vs) : ~StrLess(Chars(vs[j]), Chars(vs[i]))
                     /\ \A j \in 1..(i - 1) : vs[j] # vs[i]
         IN  <<vs[i]>> \o Sorted(RemoveAt(vs, i))

----------------------------------------------------------------------------
(* Python's eval() on the boolean-expression subset of its grammar:          *)
(*   disjunction: conjunction ('or' conjunction)*                            *)
(*   conjunction: inversion ('and' inversion)*                               *)
(*   inversion:   'not' inversion | atom                                     *)
(*   atom:        NAME | '(' disjunction ')'                                 *)
(* Text outside this grammar is a SyntaxError here.                          *)

LParen == <<"(">>
RParen == <<")">>
KwOr == <<"o", "r">>
KwAnd == <<"a", "n", "d">>
KwNot == <<"n", "o", "t">>

IsNameChar(c) == c \notin {" ", "(", ")"}

\* the tokenizer: names are maximal runs of name characters, blanks separate
RECURSIVE PyTokens(_, _)
PyTokens(text, cur) ==
    IF text = <<>> THEN (IF cur = <<>> THEN <<>> ELSE <<cur>>)
    ELSE IF IsNameChar(text[1]) THEN PyTokens(Tail(text), Append(cur, text[1]))
    ELSE (IF cur = <<>> THEN <<>> ELSE <<cur>>)
         \o (IF text[1] = " " THEN <<>> ELSE <<(<<text[1]>>)>>)
         \o PyTokens(Tail(text), <<>>)

NoParse == [ok |-> FALSE, ast |-> <<>>, pos |-> 0]
Parsed(a, p) == [ok |-> TRUE, ast |-> a, pos |-> p]

RECURSIVE ParseDisjunction(_, _)
RECURSIVE DisjunctionRest(_, _, _)
RECURSIVE ParseConjunction(_, _)
RECURSIVE ConjunctionRest(_, _, _)
RECURSIVE ParseInversion(_, _)
RECURSIVE ParseAtom(_, _)

ParseAtom(t, p) ==
    IF p > Len(t) THEN NoParse
    ELSE IF t[p] = LParen
         THEN LET r == ParseDisjunction(t, p + 1)
              IN  IF r.ok /\ r.pos <= Len(t) /\ t[r.pos] = RParen
                  THEN Parsed(r.ast, r.pos + 1)
                  ELSE NoParse
    ELSE IF t[p] \in {RParen, KwOr, KwAnd, KwNot} THEN NoParse
    ELSE Parsed(<<"name", t[p]>>, p + 1)

ParseInversion(t, p) ==
    IF p <= Len(t) /\ t[p] = KwNot
    THEN LET r == ParseInversion(t, p + 1)
         IN  IF r.ok THEN Parsed(<<"not", r.ast>>, r.pos) ELSE NoParse
    ELSE ParseAtom(t, p)

ConjunctionRest(t, left, p) ==
    IF p <= Len(t) /\ t[p] = KwAnd
    THEN LET r == ParseInversion(t, p + 1)
         IN  IF r.ok THEN ConjunctionRest(t, <<"and", left, r.ast>>, r.pos)
             ELSE NoParse
    ELSE Parsed(left, p)

ParseConjunction(t, p) ==
    LET l == ParseInversion(t, p)
    IN  IF l.ok THEN ConjunctionRest(t, l.ast, l.pos) ELSE NoParse

DisjunctionRest(t, left, p) ==
    IF p <= Len(t) /\ t[p] = KwOr
    THEN LET r == ParseConjunction(t, p + 1)
         IN  IF r.ok THEN DisjunctionRest(t, <<"or", left, r.ast>>, r.pos)
             ELSE NoParse
    ELSE Parsed(left, p)

ParseDisjunction(t, p) ==
    LET l == ParseConjunction(t, p)
    IN  IF l.ok THEN DisjunctionRest(t, l.ast, l.pos) ELSE NoParse

\* compile step of eval(): the whole text must be one expression
PyParse(text) ==
    LET t == PyTokens(text, <<>>)
        r == ParseDisjunction(t, 1)
    IN  IF r.ok /\ r.pos = Len(t) + 1 THEN r ELSE NoParse

\* values: v is the truth value 0/1, bool tells a Python bool from an int
Raised == [err |-> TRUE, bool |-> FALSE, v |-> 0]
Value(b, x) == [err |-> FALSE, bool |-> b, v |-> x]

\* run step of eval(): and/or return an operand and skip the right one when the
\* left decides; a name is looked up in globs only when it is evaluated
RECURSIVE PyValue(_, _)
PyValue(ast, globs) ==
    CASE ast[1] = "name" ->
            IF \E k \in DOMAIN globs : Chars(k) = ast[2]
            THEN Value(FALSE, globs[CHOOSE k \in DOMAIN globs : Chars(k) = ast[2]])
            ELSE Raised
      [] ast[1] = "not" ->
            LET x == PyValue(ast[2], globs)
            IN  IF x.err THEN x ELSE Value(TRUE, 1 - x.v)
      [] ast[1] = "and" ->
            LET l == PyValue(ast[2], globs)
            IN  IF l.err \/ l.v = 0 THEN l ELSE PyValue(ast[3], globs)
      [] ast[1] = "or" ->
            LET l == PyValue(ast[2], globs)
            IN  IF l.err \/ l.v = 1 THEN l ELSE PyValue(ast[3], globs)

Spaces(n) == [i \in 1..n |-> " "]

\* "{1:^{0:d}}".format(width, value): the digit centred, the odd blank on the right
Format(width, value) ==
    LET digit == IF value.v = 1 THEN "1" ELSE "0"
        pad == IF width > 1 THEN width - 1 ELSE 0
        left == pad \div 2
    IN  Spaces(left) \o <<digit>> \o Spaces(pad - left)

----------------------------------------------------------------------------
(* Evaluator *)

RECURSIVE Pow2(_)
Pow2(n) == IF n = 0 THEN 1 ELSE 2 * Pow2(n - 1)

\* mutant of Bit: the first variable is the least significant bit
BitLsbFirst(i, n, j) == (i \div Pow2(j)) % 2

\* eval(), lines 26-27: 1 if i & (1 << (n - j - 1)) else 0
Bit(i, n, j) == (i \div Pow2(n - j - 1)) % 2

\* eval(), lines 24-27: the row's dict after the inner loop (a later j overwrites)
AssignRow(vs, i) ==
    [k \in {vs[j] : j \in 1..Len(vs)} |->
        Bit(i, Len(vs), (CHOOSE j \in 1..Len(vs) :
                            vs[j] = k /\ \A m \in (j + 1)..Len(vs) : vs[m] # k) - 1)]

\* eval(), lines 23-34, from row i on: the rows, and whether eval() raised
RECURSIVE EvalRows(_, _, _, _, _)
EvalRows(text, compiled, vs, i, acc) ==
    IF i >= Pow2(Len(vs)) THEN [lines |-> acc, status |-> "ok"]
    ELSE LET row == AssignRow(vs, i)
             evaluated == IF compiled.ok THEN PyValue(compiled.ast, row) ELSE Raised
         IN  IF evaluated.err
             THEN [lines |-> Append(acc, row), status |-> "error"]
             ELSE EvalRows(text, compiled, vs, i + 1,
                           Append(acc, row @@ (" " :> Format(Len(text), evaluated))))

\* Evaluator.eval: lines is rebuilt from empty
EvalResult(text, pyexpr, vs, old) ==
    EvalRows(text, PyParse(pyexpr), vs, 0, <<>>)

\* Evaluator.__init__: the fields it sets
EvaluatorFields(text, vs) ==
    [expression |-> text, pyexpr |-> ToPython(text), variables |-> Sorted(vs),
     lines |-> <<>>]

NewEvaluator(text, vs) ==
    \E e \in {EvaluatorFields(text, vs)} :
        /\ ev_expression' = e.expression
        /\ ev_pyexpr' = e.pyexpr
        /\ ev_variables' = e.variables
        /\ lines' = e.lines
        /\ ev_state' = "new"
        /\ calls' = 0

\* main(), line 198: Evaluator(str(expression), expression.variables)
MainEvaluator ==
    /\ pc = "built"
    /\ ev_state = "none"
    /\ NewEvaluator(Join(expression), variables)
    /\ UNCHANGED builderVars

\* Evaluator.eval()
Eval ==
    /\ ev_state # "none"
    /\ calls < MaxEvalCalls
    /\ \E r \in {EvalResult(ev_expression, ev_pyexpr, ev_variables, lines)} :
          /\ lines' = r.lines
          /\ ev_state' = r.status
    /\ calls' = calls + 1
    /\ UNCHANGED <<ev_expression, ev_pyexpr, ev_variables>>
    /\ UNCHANGED builderVars

----------------------------------------------------------------------------
(* The program of main(): build an expression, then evaluate it *)

Init ==
    /\ BuilderInit
    /\ ev_expression = <<>>
    /\ ev_pyexpr = <<>>
    /\ ev_variables = <<>>
    /\ lines = <<>>
    /\ ev_state = "none"
    /\ calls = 0

Next == BuildNot \/ GroupStep \/ BuildReturn \/ MainEvaluator \/ Eval

Spec == Init /\ [][Next]_vars

----------------------------------------------------------------------------
(* An Evaluator constructed directly by a caller, on any expression text *)

\* names that occur in the expression texts a caller supplies
EvalNames == {"A", "B", "XOR"}

\* the token sequences of exactly k tokens generated by
\*   e ::= name | NOT e | ( e ) | e AND e | e OR e
RECURSIVE WellFormedOfLen(_)
WellFormedOfLen(k) ==
    IF k < 1 THEN {}
    ELSE (IF k = 1 THEN {<<v>> : v \in EvalNames} ELSE {})
         \cup {<<"NOT">> \o e : e \in WellFormedOfLen(k - 1)}
         \cup {<<"(">> \o e \o <<")">> : e \in WellFormedOfLen(k - 2)}
         \cup UNION {{l \o <<op>> \o r : l \in WellFormedOfLen(i),
                                        r \in WellFormedOfLen(k - 1 - i),
                                        op \in Operators} : i \in 1..(k - 2)}

WellFormed == UNION {WellFormedOfLen(k) : k \in 1..MaxTokens}

VariableLists == UNION {Orderings(EvalNames, n) : n \in 1..Min(MaxVars, Cardinality(EvalNames))}

InitEval ==
    /\ variables = <<>>
    /\ operators = <<>>
    /\ not_expr = <<>>
    /\ paren_count = 0
    /\ expression = <<>>
    /\ parentheses = <<>>
    /\ pc = "none"
    /\ done = 0
    /\ \E tokens \in WellFormed, vs \in VariableLists :
          \E e \in {EvaluatorFields(Join(tokens), vs)} :
              /\ ev_expression = e.expression
              /\ ev_pyexpr = e.pyexpr
              /\ ev_variables = e.variables
              /\ lines = e.lines
    /\ ev_state = "new"
    /\ calls = 0

NextEval == Eval

SpecEval == InitEval /\ [][NextEval]_vars

----------------------------------------------------------------------------
(* Vocabulary of the properties *)

Count(e, tok, k) == Cardinality({i \in 1..k : e[i] = tok})
Depth(e, k) == Count(e, "(", k) - Count(e, ")", k)

\* running count of ( minus ) never negative, zero at the end
Balanced(e) ==
    /\ \A k \in 1..Len(e) : Depth(e, k) >= 0
    /\ Depth(e, Len(e)) = 0

IsVariable(tok) == tok \in Names
IsOperand(e, a, b) == a <= b /\ Balanced(SubSeq(e, a, b))

\* the adjacency rules of a valid expression text
SyntaxValid(e) ==
    /\ Balanced(e)
    /\ \A i \in 1..Len(e) :
          /\ e[i] = "(" =>
                i < Len(e) /\ (IsVariable(e[i + 1]) \/ e[i + 1] \in {"NOT", "("})
          /\ e[i] = ")" =>
                i > 1 /\ (IsVariable(e[i - 1]) \/ e[i - 1] = ")")
          /\ e[i] \in Operators =>
                /\ i > 1 /\ (IsVariable(e[i - 1]) \/ e[i - 1] = ")")
                /\ i < Len(e) /\ (IsVariable(e[i + 1]) \/ e[i + 1] \in {"NOT", "("})
          /\ e[i] = "NOT" => i < Len(e) /\ e[i + 1] = "("
          /\ IsVariable(e[i]) =>
                /\ i = 1 \/ e[i - 1] \in Operators \cup {"("}
                /\ i = Len(e) \/ e[i + 1] \in Operators \cup {")"}

\* the ( at the first token is matched by the ) at the last token
WholeSpan(e) ==
    /\ Len(e) >= 2
    /\ e[1] = "("
    /\ e[Len(e)] = ")"
    /\ \A k \in 1..(Len(e) - 1) : Depth(e, k) > 0

\* the variables inside the parenthesis pair whose ( follows NOT
NotScope(e) ==
    LET i == Index(e, "NOT") + 1
        open == i + 1
        close == CHOOSE c \in (open + 1)..Len(e) :
                    /\ e[c] = ")"
                    /\ Depth(SubSeq(e, open, c), c - open + 1) = 0
                    /\ \A k \in open..(c - 1) : Depth(SubSeq(e, open, k), k - open + 1) > 0
    IN  {e[k] : k \in open..close} \cap Names

\* the name holds none of the keywords the constructor replaces
RECURSIVE Contains(_, _)
Contains(s, sub) ==
    IF Len(s) < Len(sub) THEN FALSE
    ELSE StartsWith(s, sub) \/ Contains(Tail(s), sub)
KeywordFree(name) ==
    \A kw \in Operators \cup {"NOT"} : ~Contains(Chars(name), Chars(kw))

\* i written in binary with n digits, most significant first
RECURSIVE Binary(_, _)
Binary(i, n) == IF n = 0 THEN <<>> ELSE Binary(i \div 2, n - 1) \o <<i % 2>>

Strip(s) == SelectSeq(s, LAMBDA c : c # " ")

\* the backbone from variable a to variable b with the operators between them
RECURSIVE Chain(_, _)
Chain(a, b) ==
    IF a > b THEN <<>>
    ELSE IF a = b THEN <<variables[a]>>
    ELSE <<variables[a], operators[a]>> \o Chain(a + 1, b)

NotPosition == CHOOSE p \in 1..Len(variables) : variables[p] = not_expr[1]
BeforeNot ==
    IF NotPosition = 1 THEN <<>>
    ELSE Chain(1, NotPosition - 1) \o <<operators[NotPosition - 1]>>
AfterNext ==
    IF NotPosition + 1 >= Len(variables) THEN <<>>
    ELSE <<operators[NotPosition + 1]>> \o Chain(NotPosition + 2, Len(variables))

AfterCloseNot == pc = "groups" /\ done = 0

----------------------------------------------------------------------------
(* A reference evaluator of the expression text: split on blanks, then split *)
(* at an operator outside all parentheses, OR before AND before NOT.         *)
(* -1 stands for "no value": malformed text or a variable without a value.   *)

RECURSIVE SplitBlanks(_, _)
SplitBlanks(text, cur) ==
    IF text = <<>> THEN (IF cur = <<>> THEN <<>> ELSE <<cur>>)
    ELSE IF text[1] = " "
         THEN (IF cur = <<>> THEN <<>> ELSE <<cur>>) \o SplitBlanks(Tail(text), <<>>)
         ELSE SplitBlanks(Tail(text), Append(cur, text[1]))

CharDepth(t, k) ==
    Cardinality({i \in 1..k : t[i] = <<"(">>}) - Cardinality({i \in 1..k : t[i] = <<")">>})
TopLevel(t, kw) == {i \in 1..Len(t) : t[i] = Chars(kw) /\ CharDepth(t, i) = 0}
SetMax(S) == CHOOSE x \in S : \A y \in S : y <= x

RECURSIVE RefValue(_, _)
RefValue(t, asg) ==
    IF t = <<>> THEN -1
    ELSE IF TopLevel(t, "OR") # {}
    THEN LET i == SetMax(TopLevel(t, "OR"))
             l == RefValue(SubSeq(t, 1, i - 1), asg)
             r == RefValue(SubSeq(t, i + 1, Len(t)), asg)
         IN  IF l = -1 \/ r = -1 THEN -1 ELSE Max(l, r)
    ELSE IF TopLevel(t, "AND") # {}
    THEN LET i == SetMax(TopLevel(t, "AND"))
             l == RefValue(SubSeq(t, 1, i - 1), asg)
             r == RefValue(SubSeq(t, i + 1, Len(t)), asg)
         IN  IF l = -1 \/ r = -1 THEN -1 ELSE Min(l, r)
    ELSE IF t[1] = Chars("NOT")
    THEN LET x == RefValue(Tail(t), asg) IN IF x = -1 THEN -1 ELSE 1 - x
    ELSE IF t[1] = <<"(">> /\ t[Len(t)] = <<")">> /\ Len(t) > 2
    THEN RefValue(SubSeq(t, 2, Len(t) - 1), asg)
    ELSE IF Len(t) = 1 /\ \E v \in DOMAIN asg : Chars(v) = t[1]
    THEN asg[CHOOSE v \in DOMAIN asg : Chars(v) = t[1]]
    ELSE -1

VarSet == {ev_variables[j] : j \in 1..Len(ev_variables)}
Assignments == [VarSet -> {0, 1}]
ExprTokens == SplitBlanks(ev_expression, <<>>)

\* names of the text that are not in the variable list
UnknownNames ==
    {ExprTokens[i] : i \in 1..Len(ExprTokens)}
        \ ({Chars(k) : k \in {"AND", "OR", "NOT", "(", ")"}} \cup {Chars(v) : v \in VarSet})

\* the text is a well-formed expression over the supplied variables
WellFormedOverVariables == \A asg \in Assignments : RefValue(ExprTokens, asg) # -1

Digit(x) == IF x = 1 THEN <<"1">> ELSE <<"0">>
HasResult(row) == " " \in DOMAIN row
RowAssignment(row) == [v \in VarSet |-> row[v]]

\* every row's recorded result is the reference value under the row's assignment
ResultsMatchReference ==
    /\ ev_state = "ok"
    /\ Len(lines) = Pow2(Len(ev_variables))
    /\ \A i \in 1..Len(lines) :
          /\ HasResult(lines[i])
          /\ Strip(lines[i][" "]) = Digit(RefValue(ExprTokens, RowAssignment(lines[i])))

----------------------------------------------------------------------------
(* Properties *)

Evaluated == ev_state # "none" /\ calls >= 1
FromBuilder == pc = "built"

\* C1: every expression build() produces is syntactically valid (each ( is
\* followed by a variable, NOT or (, each ) is preceded by a variable or ), each
\* operator has an operand on both sides), and eval() on its text with the same
\* variables completes with all 2^n rows.
C1_BuiltExpressionEvaluates ==
    (FromBuilder /\ Evaluated) =>
        /\ SyntaxValid(expression)
        /\ ev_state = "ok"
        /\ Len(lines) = Pow2(Len(variables))

\* C1, for variable names that hold none of AND, OR, NOT: the same statement.
C1_KeywordFreeNamesEvaluate ==
    (FromBuilder /\ Evaluated /\ \A i \in 1..Len(variables) : KeywordFree(variables[i])) =>
        /\ SyntaxValid(expression)
        /\ ev_state = "ok"
        /\ Len(lines) = Pow2(Len(variables))

\* C2: after the NOT's ) is inserted, after every extra group is inserted, and
\* after build(), the running count of ( minus ) never goes negative and ends at 0.
C2_ParenthesesBalanced ==
    pc \in {"groups", "built"} => Balanced(expression)

C2_Witness ==
    /\ pc = "built"
    /\ done >= 2
    /\ Count(expression, ")", Len(expression)) >= 3

\* C3: exactly one NOT appears, the token after it is (, and the token after
\* that ( is the negated variable, also after extra groups have been inserted.
C3_OneNotOnItsVariable ==
    pc \in {"groups", "built"} =>
        /\ Count(expression, "NOT", Len(expression)) = 1
        /\ LET i == Index(expression, "NOT") + 1
           IN  /\ i + 2 <= Len(expression)
               /\ expression[i + 1] = "("
               /\ expression[i + 2] = not_expr[1]

\* an extra group was opened right before NOT and another closed right after
\* the negated variable
C3_Witness ==
    /\ pc = "built"
    /\ done >= 1
    /\ LET i == Index(expression, "NOT") + 1
       IN  /\ i > 1
           /\ expression[i - 1] = "("
           /\ i + 4 <= Len(expression)
           /\ expression[i + 3] = ")"
           /\ expression[i + 4] = ")"

\* C4: in a built expression no matched parenthesis pair spans the whole token
\* sequence, from index 0 to the last index.
C4_NoGroupSpansExpression ==
    pc = "built" => ~WholeSpan(expression)

\* C5: an extra-group insertion leaves the set of variables enclosed by the
\* NOT's own parenthesis pair unchanged.
C5_NotScopeUnchanged ==
    [][(pc = "groups" /\ done' = done + 1) => NotScope(expression') = NotScope(expression)]_vars

\* C6: build() completes without raising, for every variable list (a single
\* variable included) and every extra-group count.
C6_BuildNeverRaises ==
    pc # "raised"

\* C7: after one or more successful eval() calls the rows are exactly 2^n, in
\* increasing order of i, and row i gives the variable at position j of the
\* alphabetically sorted list the j-th most significant binary digit of i.
C7_RowsCountInBinary ==
    (Evaluated /\ ev_state = "ok") =>
        /\ Len(ev_variables) = Len(variables)
        /\ {ev_variables[j] : j \in 1..Len(ev_variables)}
              = {variables[j] : j \in 1..Len(variables)}
        /\ \A j \in 1..(Len(ev_variables) - 1) :
              StrLess(Chars(ev_variables[j]), Chars(ev_variables[j + 1]))
        /\ Len(lines) = Pow2(Len(ev_variables))
        /\ \A i \in 1..Len(lines) : \A j \in 1..Len(ev_variables) :
              lines[i][ev_variables[j]] = Binary(i - 1, Len(ev_variables))[j]

\* three variables supplied out of alphabetical order, evaluated twice
C7_Witness ==
    /\ calls = 2
    /\ ev_state = "ok"
    /\ Len(variables) = 3
    /\ variables # ev_variables
    /\ Len(lines) = 8

\* C8: for every well-formed expression over the supplied variables, eval()
\* records in each row the value a reference evaluator (NOT before AND before
\* OR, parentheses as written) gives under the row's assignment, on every call.
C8_EvalMatchesReference ==
    (Evaluated /\ WellFormedOverVariables) => ResultsMatchReference

\* C8, for variable names that hold none of AND, OR, NOT: the same statement.
C8_KeywordFreeNamesMatchReference ==
    (Evaluated /\ WellFormedOverVariables /\ \A v \in VarSet : KeywordFree(v))
        => ResultsMatchReference

\* C9: when the expression text references a name that is not in the variable
\* list, eval() ends in an error and never completes with all its rows.
C9_UnknownNameFails ==
    (Evaluated /\ UnknownNames # {}) => ev_state = "error"

====
